---- MODULE Spec2Model ----
(***************************************************************************)
(* Model of DataEgressService (data-egress-service.js): the egress-store    *)
(* record life cycle (createEgressStore, terminateEgressStore, notifySNS,  *)
(* enableEgressStoreSubmission) and the reconciliation of the shared S3    *)
(* bucket policy (addEgressStoreBucketPolicy, removeEgressStoreBucketPolicy)*)
(* Every await of the service that touches shared state (the DynamoDB      *)
(* table, the buckets, the bucket policy, the lock service, SNS) is one    *)
(* step of a process, so that concurrent calls interleave exactly where    *)
(* the JavaScript can be suspended.                                        *)
(*                                                                         *)
(* Not modelled: timestamps (createdAt, updatedAt), the KMS key lookup,    *)
(* the audit writer (fire and forget), the manifest body and the object    *)
(* listing of getEgressStore.                                              *)
(***************************************************************************)
EXTENDS Integers, Sequences, FiniteSets, TLC

\* ------------------------------------------------------------------ bounds
\* number of service calls started in one behaviour
MaxOps == 4
\* largest ver a record is allowed to reach in the model
MaxVer == 2
\* longest policy document the policy specification starts from
MaxStatements == 2
\* number of grant/revoke calls the policy specification applies in a row
MaxCalls == 2

\* the concurrent callers of the service
Procs == {"p1", "p2"}
NoProc == "none"

\* ------------------------------------------------------------- constants
PROCESSING_STATUS_CODE == "PROCESSING"
PROCESSED_STATUS_CODE == "PROCESSED"
TERMINATED_STATUS_CODE == "TERMINATED"
CREATED_STATUS_CODE == "CREATED"
PENDING_STATUS_CODE == "PENDING"

\* settings.get('enableEgressStore')
enableEgressStore == "TRUE"

FeatureEnabled == enableEgressStore = "TRUE"

Workspaces == {"w1", "w2"}
\* requestContext.principalIdentifier.uid; "admin" is the one isAdmin accepts
Users == {"owner", "admin", "other"}
Accounts == {"a1", "a2"}
\* keys under a store's prefix: the folder marker createPath writes
FolderKey == "dir"

\* environment.createdBy of the workspace the store is created for
EnvCreatedBy(w) == "owner"

\* environmentScService.getMemberAccount(...).accountId
getMemberAccountId(w) == IF w = "w1" THEN "a1" ELSE "a2"

isAdmin(u) == u = "admin"

\* no item under the key in the table
NoRecord ==
  [status |-> "NONE", flag |-> FALSE, ver |-> 0, loc |-> 0,
   createdBy |-> "none", updatedBy |-> "none"]

\* the item createEgressStore builds (loc 0 is egressStoreObjectListLocation: null,
\* loc n is the manifest key ...-ver<n>.json; flag is isAbleToSubmitEgressRequest)
NewRecord(w, by) ==
  [status |-> CREATED_STATUS_CODE, flag |-> FALSE, ver |-> 0, loc |-> 0,
   createdBy |-> EnvCreatedBy(w), updatedBy |-> by]

\* ------------------------------------------------------ policy statements
Kinds == {"get", "put", "list"}
\* egressStore.envPermission of the descriptor both callers build
EnvPermission == [read |-> TRUE, write |-> TRUE]

\* statementParamFunctions of addEgressStoreBucketPolicy
GrantKinds(perm) ==
  (IF perm.read THEN <<"get">> ELSE <<>>)
    \o (IF perm.write THEN <<"put">> ELSE <<>>)
    \o (IF perm.read \/ perm.write THEN <<"list">> ELSE <<>>)

\* variant: the list statement left out of the revoke
RevokeKinds_noList == <<"get", "put">>

\* statementParamFunctions of removeEgressStoreBucketPolicy
RevokeKinds == <<"get", "put", "list">>

\* a statement: Sid is derived from (store prefix, kind); principals is Principal.AWS
Statement(s, k, ps) == [store |-> s, kind |-> k, principals |-> ps]

SameSid(a, b) == a.store = b.store /\ a.kind = b.kind

RECURSIVE FindStatement(_, _, _)
\* s3Policy.Statement.find(s => s.Sid === statementId), or a fresh empty statement
FindStatement(doc, s, k) ==
  IF doc = <<>> THEN Statement(s, k, {})
  ELSE IF Head(doc).store = s /\ Head(doc).kind = k THEN Head(doc)
  ELSE FindStatement(Tail(doc), s, k)

addAccountToStatement(st, acct) == [st EXCEPT !.principals = @ \cup {acct}]

removeAccountFromStatement(st, acct) == [st EXCEPT !.principals = @ \ {acct}]

\* the closures the service passes as updateStatementFn:
\* oldStatement => addAccountToStatement(oldStatement, memberAccountId) and
\* oldStatement => removeAccountFromStatement(oldStatement, memberAccountId)
AddFn(acct) == [fn |-> "add", account |-> acct]
RemoveFn(acct) == [fn |-> "remove", account |-> acct]

\* updateStatementFn(oldStatement)
ApplyFn(f, st) ==
  IF f.fn = "add" THEN addAccountToStatement(st, f.account)
  ELSE removeAccountFromStatement(st, f.account)

\* one revised statement per statement kind, in the order of the kinds
getRevisedS3Statements(doc, s, kinds, updateStatementFn) ==
  [i \in 1..Len(kinds) |-> ApplyFn(updateStatementFn, FindStatement(doc, s, kinds[i]))]

\* the document with the revised statements replacing those with the same Sid;
\* a revised statement with no principal left is dropped
updateS3BucketPolicy(doc, revised) ==
  SelectSeq(doc, LAMBDA st : \A i \in 1..Len(revised) : ~SameSid(st, revised[i]))
    \o SelectSeq(revised, LAMBDA st : st.principals # {})

\* the document addEgressStoreBucketPolicy puts, given the one it fetched;
\* the variant appends the revised statements to the fetched document
addEgressStoreBucketPolicy_push(doc, s, acct) ==
  doc \o getRevisedS3Statements(doc, s, GrantKinds(EnvPermission), AddFn(acct))

\* variant: only the revised statements are put, the rest of the fetched
\* document is left out
addEgressStoreBucketPolicy_replace(doc, s, acct) ==
  getRevisedS3Statements(doc, s, GrantKinds(EnvPermission), AddFn(acct))

addEgressStoreBucketPolicy(doc, s, acct) ==
  updateS3BucketPolicy(doc,
    getRevisedS3Statements(doc, s, GrantKinds(EnvPermission), AddFn(acct)))

\* variant: the revised statements are put as they are, empty ones included
removeEgressStoreBucketPolicy_keepEmpty(doc, s, acct) ==
  SelectSeq(doc, LAMBDA st : st.store # s)
    \o getRevisedS3Statements(doc, s, RevokeKinds, RemoveFn(acct))

\* the document removeEgressStoreBucketPolicy puts, given the one it fetched
removeEgressStoreBucketPolicy(doc, s, acct) ==
  updateS3BucketPolicy(doc,
    getRevisedS3Statements(doc, s, RevokeKinds, RemoveFn(acct)))

\* ------------------------------------------------------------------ state
VARIABLES
  records,    \* the dbEgressStore table: workspace id -> item or NoRecord
  storage,    \* egress bucket: workspace id -> keys under the store's prefix
  manifests,  \* notification bucket: the manifest keys <<store id, N>> written
  published,  \* the messages handed to SNS, in order
  policy,     \* the bucket policy document of the egress bucket: its Statement list
  lock,       \* lock service: lock id -> holder or NoProc
  pc,         \* where each caller is in its call
  op,         \* the call a caller is in (or finished last)
  ws,         \* the workspace (environment id) of that call
  req,        \* its requester (curUser / by)
  info,       \* its egressStoreInfo / dbObject
  s3Policy,   \* the policy document it fetched
  result,     \* what a finished call returned or threw
  rseq,       \* the table write count of ws at the time info was read
  wseq,       \* workspace id -> number of writes the service made to its item
  started,    \* number of calls started
  calls       \* policy specification: the calls applied, with the documents

vars == <<records, storage, manifests, published, policy, lock, pc, op, ws, req,
          info, s3Policy, result, rseq, wseq, started, calls>>

\* settings.get('egressStoreBucketName'): one bucket, one policy document
egressStoreBucketName == "egress-bucket"

\* `egress-store-ddb-access-${egressStoreId}`
egressStoreDdbLockId(w) == <<"egress-store-ddb-access", w>>

\* variant: the policy lock scoped to the store instead of the bucket
bucketPolicyLockId_perStore(w) == <<"bucket-policy-access", w>>

\* `bucket-policy-access-${bucketName}`: the same lock for every store
bucketPolicyLockId(w) == <<"bucket-policy-access", egressStoreBucketName>>

LockIds ==
  {egressStoreDdbLockId(w) : w \in Workspaces}
    \cup {<<"bucket-policy-access", x>> : x \in Workspaces \cup {egressStoreBucketName}}

\* a statement of the bucket policy that belongs to no egress store
ForeignStatement == Statement("other", "get", {"a2"})

Init ==
  /\ records = [w \in Workspaces |-> NoRecord]
  /\ storage = [w \in Workspaces |-> {}]
  /\ manifests = {}
  /\ published = <<>>
  /\ policy = <<ForeignStatement>>
  /\ lock = [l \in LockIds |-> NoProc]
  /\ pc = [p \in Procs |-> "idle"]
  /\ op = [p \in Procs |-> "none"]
  /\ ws = [p \in Procs |-> "w1"]
  /\ req = [p \in Procs |-> "none"]
  /\ info = [p \in Procs |-> NoRecord]
  /\ s3Policy = [p \in Procs |-> <<>>]
  /\ result = [p \in Procs |-> "none"]
  /\ rseq = [p \in Procs |-> 0]
  /\ wseq = [w \in Workspaces |-> 0]
  /\ started = 0
  /\ calls = <<>>

\* ---------------------------------------------------------- call framing
CanStart(p) == pc[p] \in {"idle", "done"} /\ started < MaxOps /\ FeatureEnabled

\* a call begins: its arguments
Begin(p, o, w, u) ==
  /\ op' = [op EXCEPT ![p] = o]
  /\ ws' = [ws EXCEPT ![p] = w]
  /\ started' = started + 1

\* a call ends (returns or throws r): its locals are gone
Finish(p, r) ==
  /\ pc' = [pc EXCEPT ![p] = "done"]
  /\ result' = [result EXCEPT ![p] = r]
  /\ req' = [req EXCEPT ![p] = "none"]
  /\ info' = [info EXCEPT ![p] = NoRecord]
  /\ s3Policy' = [s3Policy EXCEPT ![p] = <<>>]
  /\ rseq' = [rseq EXCEPT ![p] = 0]

\* a call goes on to step l with egressStoreInfo r
Goto(p, l, r) ==
  /\ pc' = [pc EXCEPT ![p] = l]
  /\ info' = [info EXCEPT ![p] = r]
  /\ result' = [result EXCEPT ![p] = "none"]

Release(id) == lock' = [lock EXCEPT ![id] = NoProc]

\* the lock a call at a lock step asks for
WantedLock(p) ==
  IF pc[p] = "p_lock" THEN bucketPolicyLockId(ws[p]) ELSE egressStoreDdbLockId(ws[p])

\* tryWriteLockAndRun obtains the lock
Acquire(p, next) ==
  /\ lock[WantedLock(p)] = NoProc
  /\ lock' = [lock EXCEPT ![WantedLock(p)] = p]
  /\ pc' = [pc EXCEPT ![p] = next]

\* tryWriteLockAndRun gives up on a lock another caller holds: the call throws
LockFail(p) ==
  /\ pc[p] \in {"c_lock", "u_lock", "p_lock"}
  /\ lock[WantedLock(p)] # NoProc
  /\ Finish(p, "LockFailed")
  /\ UNCHANGED <<records, storage, manifests, published, policy, lock, op, ws,
                 wseq, started, calls>>

\* ------------------------------------------------------ createEgressStore
\* variant: the conditional write without its condition
CreateCondition_none(rec) == TRUE

\* .condition('attribute_not_exists(id)')
CreateCondition(rec) == rec = NoRecord

\* feature check, schema validation, createPath, dbObject (createPath is
\* called before the record lock is asked for; its put of the folder marker is
\* taken to happen at the call)
CreateStart(p, w, u) ==
  /\ CanStart(p)
  /\ Begin(p, "create", w, u)
  /\ storage' = [storage EXCEPT ![w] = @ \cup {FolderKey}]
  /\ req' = [req EXCEPT ![p] = u]
  /\ rseq' = [rseq EXCEPT ![p] = 0]
  /\ s3Policy' = [s3Policy EXCEPT ![p] = <<>>]
  /\ Goto(p, "c_lock", NewRecord(w, u))
  /\ UNCHANGED <<records, manifests, published, policy, lock, wseq, calls>>

CreateLock(p) ==
  /\ pc[p] = "c_lock"
  /\ Acquire(p, "c_update")
  /\ UNCHANGED <<records, storage, manifests, published, policy, op, ws, req, info,
                 s3Policy, result, rseq, wseq, started, calls>>

\* variant: the record lock is kept while the grant is made
CreateUpdate_noRelease(p) ==
  /\ pc[p] = "c_update"
  /\ IF CreateCondition(records[ws[p]])
       THEN /\ records' = [records EXCEPT ![ws[p]] = info[p]]
            /\ wseq' = [wseq EXCEPT ![ws[p]] = @ + 1]
            /\ pc' = [pc EXCEPT ![p] = "p_lock"]
            /\ UNCHANGED <<lock, req, info, s3Policy, result, rseq>>
       ELSE /\ Release(egressStoreDdbLockId(ws[p]))
            /\ Finish(p, "AlreadyExists")
            /\ UNCHANGED <<records, wseq>>
  /\ UNCHANGED <<storage, manifests, published, policy, op, ws, started, calls>>

\* the conditional put inside the record lock; the lock is released on both exits
CreateUpdate(p) ==
  /\ pc[p] = "c_update"
  /\ Release(egressStoreDdbLockId(ws[p]))
  /\ IF CreateCondition(records[ws[p]])
       THEN /\ records' = [records EXCEPT ![ws[p]] = info[p]]
            /\ wseq' = [wseq EXCEPT ![ws[p]] = @ + 1]
            /\ pc' = [pc EXCEPT ![p] = "p_lock"]
            /\ UNCHANGED <<req, info, s3Policy, result, rseq>>
       ELSE /\ Finish(p, "AlreadyExists")
            /\ UNCHANGED <<records, wseq>>
  /\ UNCHANGED <<storage, manifests, published, policy, op, ws, started, calls>>

\* --------------------------------------- bucket policy critical section
PolicyLock(p) ==
  /\ pc[p] = "p_lock"
  /\ Acquire(p, "p_get")
  /\ UNCHANGED <<records, storage, manifests, published, policy, op, ws, req, info,
                 s3Policy, result, rseq, wseq, started, calls>>

\* getS3BucketAndPolicy
PolicyGet(p) ==
  /\ pc[p] = "p_get"
  /\ s3Policy' = [s3Policy EXCEPT ![p] = policy]
  /\ pc' = [pc EXCEPT ![p] = "p_put"]
  /\ UNCHANGED <<records, storage, manifests, published, policy, lock, op, ws, req,
                 info, result, rseq, wseq, started, calls>>

\* putBucketPolicy of the revised document, then the lock is released
PolicyPut(p) ==
  /\ pc[p] = "p_put"
  /\ policy' = IF op[p] = "create"
                 THEN addEgressStoreBucketPolicy(s3Policy[p], ws[p],
                                                 getMemberAccountId(ws[p]))
                 ELSE removeEgressStoreBucketPolicy(s3Policy[p], ws[p],
                                                    getMemberAccountId(ws[p]))
  /\ Release(bucketPolicyLockId(ws[p]))
  /\ Finish(p, "ok")
  /\ UNCHANGED <<records, storage, manifests, published, op, ws, wseq, started, calls>>

\* getBucketPolicy or putBucketPolicy throws: nothing is written
PolicyFail(p) ==
  /\ pc[p] \in {"p_get", "p_put"}
  /\ Release(bucketPolicyLockId(ws[p]))
  /\ Finish(p, "PolicyUpdateFailed")
  /\ UNCHANGED <<records, storage, manifests, published, policy, op, ws, wseq,
                 started, calls>>

\* ---------------------------------------------------------- lockAndUpdate
\* variant: the update without its condition
UpdateCondition_none(rec) == TRUE

\* .condition('attribute_exists(id)')
UpdateCondition(rec) == rec # NoRecord

LockAndUpdateLock(p) ==
  /\ pc[p] = "u_lock"
  /\ Acquire(p, "u_update")
  /\ UNCHANGED <<records, storage, manifests, published, policy, op, ws, req, info,
                 s3Policy, result, rseq, wseq, started, calls>>

\* the conditional put of the caller's object; what follows depends on the caller
LockAndUpdateWrite(p) ==
  /\ pc[p] = "u_update"
  /\ Release(egressStoreDdbLockId(ws[p]))
  /\ IF UpdateCondition(records[ws[p]])
       THEN /\ records' = [records EXCEPT ![ws[p]] = info[p]]
            /\ wseq' = [wseq EXCEPT ![ws[p]] = @ + 1]
            /\ IF op[p] = "enable"
                 THEN Finish(p, "ok")
                 ELSE /\ pc' = [pc EXCEPT ![p] =
                                  IF op[p] = "terminate" THEN "p_lock" ELSE "s_publish"]
                      /\ UNCHANGED <<req, info, s3Policy, result, rseq>>
       ELSE /\ Finish(p, "UpdateFailed")
            /\ UNCHANGED <<records, wseq>>
  /\ UNCHANGED <<storage, manifests, published, policy, op, ws, started, calls>>

\* --------------------------------------------------- terminateEgressStore
\* variant: no check of the requester
Authorized_anybody(rec, u) == TRUE

\* isAdmin(requestContext) || egressStoreInfo.createdBy === curUser
Authorized(rec, u) == isAdmin(u) \/ rec.createdBy = u

\* variant: every CREATED store counts as untouched
isEgressStoreNotTouched_anyCreated(rec) ==
  rec.status = CREATED_STATUS_CODE

isEgressStoreNotTouched(rec) ==
  rec.status = CREATED_STATUS_CODE /\ rec.flag = FALSE

\* variant: a store still in processing is terminated like a processed one
TerminateDecision_noConflict(rec, u) ==
  IF rec = NoRecord THEN "null"
  ELSE IF ~Authorized(rec, u) THEN "Forbidden"
  ELSE IF rec.status \in {PROCESSING_STATUS_CODE, PROCESSED_STATUS_CODE}
            \/ isEgressStoreNotTouched(rec) THEN "proceed"
  ELSE "ok"

\* what terminateEgressStore does with the record it scanned: return null,
\* throw, terminate ("proceed") or return the record as it is ("ok")
TerminateDecision(rec, u) ==
  IF rec = NoRecord THEN "null"
  ELSE IF ~Authorized(rec, u) THEN "Forbidden"
  ELSE IF rec.status = PROCESSING_STATUS_CODE THEN "Conflict"
  ELSE IF rec.status = PROCESSED_STATUS_CODE \/ isEgressStoreNotTouched(rec)
    THEN "proceed"
  ELSE "ok"

\* feature check, getEgressStoreInfo and the checks on what it returned
TerminateStart(p, w, u) ==
  /\ CanStart(p)
  /\ Begin(p, "terminate", w, u)
  /\ IF TerminateDecision(records[w], u) = "proceed"
       THEN /\ Goto(p, "t_clear", records[w])
            /\ req' = [req EXCEPT ![p] = u]
            /\ rseq' = [rseq EXCEPT ![p] = wseq[w]]
            /\ s3Policy' = [s3Policy EXCEPT ![p] = <<>>]
       ELSE Finish(p, TerminateDecision(records[w], u))
  /\ UNCHANGED <<records, storage, manifests, published, policy, lock, wseq, calls>>

\* variant: the storage contents are left in place
TerminateClear_noClear(p) ==
  /\ pc[p] = "t_clear"
  /\ storage' = storage
  /\ Goto(p, "u_lock", [info[p] EXCEPT !.status = TERMINATED_STATUS_CODE,
                                        !.updatedBy = req[p],
                                        !.flag = FALSE])
  /\ UNCHANGED <<records, manifests, published, policy, lock, op, ws, req, s3Policy,
                 rseq, wseq, started, calls>>

\* clearPath, then the fields terminate sets on its copy of the record
TerminateClear(p) ==
  /\ pc[p] = "t_clear"
  /\ storage' = [storage EXCEPT ![ws[p]] = {}]
  /\ Goto(p, "u_lock", [info[p] EXCEPT !.status = TERMINATED_STATUS_CODE,
                                        !.updatedBy = req[p],
                                        !.flag = FALSE])
  /\ UNCHANGED <<records, manifests, published, policy, lock, op, ws, req, s3Policy,
                 rseq, wseq, started, calls>>

\* clearPath throws
TerminateClearFail(p) ==
  /\ pc[p] = "t_clear"
  /\ Finish(p, "StorageIOFailed")
  /\ UNCHANGED <<records, storage, manifests, published, policy, lock, op, ws, wseq,
                 started, calls>>

\* -------------------------------------------------------------- notifySNS
\* variant: the readiness check left out
SubmitDecision_noFlag(rec, u) ==
  IF rec = NoRecord THEN "TypeError"
  ELSE IF ~Authorized(rec, u) THEN "Forbidden"
  ELSE "proceed"

\* what notifySNS does with the record it scanned (a null record makes the
\* property access throw)
SubmitDecision(rec, u) ==
  IF rec = NoRecord THEN "TypeError"
  ELSE IF ~rec.flag THEN "InvalidState"
  ELSE IF ~Authorized(rec, u) THEN "Forbidden"
  ELSE "proceed"

SubmitStart(p, w, u) ==
  /\ CanStart(p)
  /\ SubmitDecision(records[w], u) = "proceed" => records[w].ver < MaxVer
  /\ Begin(p, "submit", w, u)
  /\ IF SubmitDecision(records[w], u) = "proceed"
       THEN /\ Goto(p, "s_snap", records[w])
            /\ req' = [req EXCEPT ![p] = u]
            /\ rseq' = [rseq EXCEPT ![p] = wseq[w]]
            /\ s3Policy' = [s3Policy EXCEPT ![p] = <<>>]
       ELSE Finish(p, SubmitDecision(records[w], u))
  /\ UNCHANGED <<records, storage, manifests, published, policy, lock, wseq, calls>>

\* variant: the manifest key carries the record's version as it is
curVersion_same(rec) == rec.ver

\* curVersion of prepareEgressStoreSnapshot: the N of the manifest key
curVersion(rec) == rec.ver + 1

\* prepareEgressStoreSnapshot puts the manifest, then the fields notifySNS sets
SubmitSnapshot(p) ==
  /\ pc[p] = "s_snap"
  /\ manifests' = manifests \cup {<<ws[p], curVersion(info[p])>>}
  /\ Goto(p, "u_lock", [info[p] EXCEPT !.status = PENDING_STATUS_CODE,
                                        !.updatedBy = req[p],
                                        !.flag = FALSE,
                                        !.loc = curVersion(info[p]),
                                        !.ver = info[p].ver + 1])
  /\ UNCHANGED <<records, storage, published, policy, lock, op, ws, req, s3Policy,
                 rseq, wseq, started, calls>>

\* listing or putObject throws
SubmitSnapshotFail(p) ==
  /\ pc[p] = "s_snap"
  /\ Finish(p, "SnapshotFailed")
  /\ UNCHANGED <<records, storage, manifests, published, policy, lock, op, ws, wseq,
                 started, calls>>

\* the message built from the caller's copy of the record
Message(w, rec) == [store |-> w, status |-> rec.status, ver |-> rec.ver, loc |-> rec.loc]

SubmitPublish(p) ==
  /\ pc[p] = "s_publish"
  /\ published' = Append(published, Message(ws[p], info[p]))
  /\ Finish(p, "ok")
  /\ UNCHANGED <<records, storage, manifests, policy, lock, op, ws, wseq, started, calls>>

\* variant: a failed publish undoes the submit on the record
SubmitPublishFail_rollback(p) ==
  /\ pc[p] = "s_publish"
  /\ records' = [records EXCEPT ![ws[p]] =
                   [@ EXCEPT !.flag = TRUE, !.ver = info[p].ver - 1, !.loc = 0]]
  /\ Finish(p, "PublishFailed")
  /\ UNCHANGED <<storage, manifests, published, policy, lock, op, ws, wseq,
                 started, calls>>

\* publishMessage throws
SubmitPublishFail(p) ==
  /\ pc[p] = "s_publish"
  /\ Finish(p, "PublishFailed")
  /\ UNCHANGED <<records, storage, manifests, published, policy, lock, op, ws, wseq,
                 started, calls>>

\* ------------------------------------------- enableEgressStoreSubmission
\* the record the caller passes in is the one it got from getEgressStoreInfo;
\* the flag is set on that copy
EnableStart(p, w) ==
  /\ CanStart(p)
  /\ records[w] # NoRecord
  /\ Begin(p, "enable", w, "none")
  /\ Goto(p, "u_lock", [records[w] EXCEPT !.flag = TRUE])
  /\ rseq' = [rseq EXCEPT ![p] = wseq[w]]
  /\ UNCHANGED <<records, storage, manifests, published, policy, lock, req, s3Policy,
                 wseq, calls>>

\* --------------------------------------------------------- environment
\* the Data Manager works on a submitted request and writes the status; the
\* service only reads these two statuses
DataManager(w) ==
  /\ records[w].status \in {PENDING_STATUS_CODE, PROCESSING_STATUS_CODE}
  /\ records' = [records EXCEPT ![w].status =
                    IF @ = PENDING_STATUS_CODE THEN PROCESSING_STATUS_CODE
                    ELSE PROCESSED_STATUS_CODE]
  /\ UNCHANGED <<storage, manifests, published, policy, lock, pc, op, ws, req, info,
                 s3Policy, result, rseq, wseq, started, calls>>

Next ==
  \/ \E p \in Procs, w \in Workspaces, u \in Users : CreateStart(p, w, u)
  \/ \E p \in Procs : CreateLock(p)
  \/ \E p \in Procs : CreateUpdate(p)
  \/ \E p \in Procs : PolicyLock(p)
  \/ \E p \in Procs : PolicyGet(p)
  \/ \E p \in Procs : PolicyPut(p)
  \/ \E p \in Procs : PolicyFail(p)
  \/ \E p \in Procs : LockFail(p)
  \/ \E p \in Procs : LockAndUpdateLock(p)
  \/ \E p \in Procs : LockAndUpdateWrite(p)
  \/ \E p \in Procs, w \in Workspaces, u \in Users : TerminateStart(p, w, u)
  \/ \E p \in Procs : TerminateClear(p)
  \/ \E p \in Procs : TerminateClearFail(p)
  \/ \E p \in Procs, w \in Workspaces, u \in Users : SubmitStart(p, w, u)
  \/ \E p \in Procs : SubmitSnapshot(p)
  \/ \E p \in Procs : SubmitSnapshotFail(p)
  \/ \E p \in Procs : SubmitPublish(p)
  \/ \E p \in Procs : SubmitPublishFail(p)
  \/ \E p \in Procs, w \in Workspaces : EnableStart(p, w)
  \/ \E w \in Workspaces : DataManager(w)

Spec == Init /\ [][Next]_vars

\* -------------------------------------------- the reconciler on its own
\* grant and revoke applied one after the other to a policy document drawn
\* from the documents a bucket can hold: every Sid at most once, no statement
\* without principal.
StatementPool ==
  {Statement(s, k, ps) : s \in Workspaces, k \in Kinds, ps \in (SUBSET Accounts) \ {{}}}
    \cup {ForeignStatement}

DistinctSids(doc) ==
  \A i, j \in 1..Len(doc) : SameSid(doc[i], doc[j]) => i = j

Docs ==
  UNION {{d \in [1..n -> StatementPool] : DistinctSids(d)} : n \in 0..MaxStatements}

InitPolicy ==
  /\ policy \in Docs
  /\ records = [w \in Workspaces |-> NoRecord]
  /\ storage = [w \in Workspaces |-> {}]
  /\ manifests = {}
  /\ published = <<>>
  /\ lock = [l \in LockIds |-> NoProc]
  /\ pc = [p \in Procs |-> "idle"]
  /\ op = [p \in Procs |-> "none"]
  /\ ws = [p \in Procs |-> "w1"]
  /\ req = [p \in Procs |-> "none"]
  /\ info = [p \in Procs |-> NoRecord]
  /\ s3Policy = [p \in Procs |-> <<>>]
  /\ result = [p \in Procs |-> "none"]
  /\ rseq = [p \in Procs |-> 0]
  /\ wseq = [w \in Workspaces |-> 0]
  /\ started = 0
  /\ calls = <<>>

Call(o, s, a, doc) == [op |-> o, store |-> s, account |-> a, before |-> doc]

\* addEgressStoreBucketPolicy run alone: fetch, revise, put
GrantCall(s, a) ==
  /\ Len(calls) < MaxCalls
  /\ policy' = addEgressStoreBucketPolicy(policy, s, a)
  /\ calls' = Append(calls, Call("grant", s, a, policy))
  /\ UNCHANGED <<records, storage, manifests, published, lock, pc, op, ws, req, info,
                 s3Policy, result, rseq, wseq, started>>

\* removeEgressStoreBucketPolicy run alone
RevokeCall(s, a) ==
  /\ Len(calls) < MaxCalls
  /\ policy' = removeEgressStoreBucketPolicy(policy, s, a)
  /\ calls' = Append(calls, Call("revoke", s, a, policy))
  /\ UNCHANGED <<records, storage, manifests, published, lock, pc, op, ws, req, info,
                 s3Policy, result, rseq, wseq, started>>

NextPolicy ==
  \/ \E s \in Workspaces, a \in Accounts : GrantCall(s, a)
  \/ \E s \in Workspaces, a \in Accounts : RevokeCall(s, a)

SpecPolicy == InitPolicy /\ [][NextPolicy]_vars

\* the document after the i-th call
After(i) == IF i = Len(calls) THEN policy ELSE calls[i + 1].before

\* the principals of store s's statement of kind k in a document
Principals(doc, s, k) == FindStatement(doc, s, k).principals

\* the statements of a document, without their order
StatementSet(doc) == {doc[i] : i \in 1..Len(doc)}

\* the statements of a document that do not belong to store s, in order
Unrelated(doc, s) == SelectSeq(doc, LAMBDA st : st.store # s)

\* store w's account is a principal of each of w's three statements
HasGrant(doc, w) ==
  \A k \in Kinds : getMemberAccountId(w) \in Principals(doc, w, k)

\* --------------------------------------------- concurrent creates only
NextCreate ==
  \/ \E p \in Procs, w \in Workspaces, u \in Users : CreateStart(p, w, u)
  \/ \E p \in Procs : CreateLock(p)
  \/ \E p \in Procs : CreateUpdate(p)
  \/ \E p \in Procs : PolicyLock(p)
  \/ \E p \in Procs : PolicyGet(p)
  \/ \E p \in Procs : PolicyPut(p)
  \/ \E p \in Procs : PolicyFail(p)
  \/ \E p \in Procs : LockFail(p)

SpecCreate == Init /\ [][NextCreate]_vars

\* -------------------------------------------------- stores that exist
\* What the table, the storage, the manifests, the events and the policy hold
\* for a store after the calls that brought it to a stage:
\*   absent      no call
\*   untouched   create
\*   enabled     create, enable
\*   pending     create, enable, submit
\*   resubmit    create, enable, submit, enable
\*   processing  pending, then the Data Manager
\*   processed   processing, then the Data Manager
\*   terminated  create, terminate
AllStages ==
  {"absent", "untouched", "enabled", "pending", "resubmit", "processing",
   "processed", "terminated"}

\* the stages in which a submit is accepted
SubmitStages == {"enabled", "resubmit"}

\* the stages with a first submit behind them
SubmittedStages == {"pending", "resubmit", "processing", "processed"}

\* the record the first submit of a store wrote and published
FirstSubmitted(w) ==
  [NewRecord(w, "owner") EXCEPT !.status = PENDING_STATUS_CODE, !.ver = 1, !.loc = 1]

StagedRecord(w, stage) ==
  CASE stage = "absent" -> NoRecord
    [] stage = "untouched" -> NewRecord(w, "owner")
    [] stage = "enabled" -> [NewRecord(w, "owner") EXCEPT !.flag = TRUE]
    [] stage = "pending" -> FirstSubmitted(w)
    [] stage = "resubmit" -> [FirstSubmitted(w) EXCEPT !.flag = TRUE]
    [] stage = "processing" ->
         [FirstSubmitted(w) EXCEPT !.status = PROCESSING_STATUS_CODE]
    [] stage = "processed" ->
         [FirstSubmitted(w) EXCEPT !.status = PROCESSED_STATUS_CODE]
    [] stage = "terminated" ->
         [NewRecord(w, "owner") EXCEPT !.status = TERMINATED_STATUS_CODE]

\* the number of writes the service made to the item of a store at a stage
StagedWrites(stage) ==
  CASE stage = "absent" -> 0
    [] stage = "untouched" -> 1
    [] stage \in {"enabled", "terminated"} -> 2
    [] stage = "resubmit" -> 4
    [] OTHER -> 3

\* the grant of a store that exists and is not terminated
StagedGrant(doc, w, stage) ==
  IF stage \in {"absent", "terminated"} THEN doc
  ELSE addEgressStoreBucketPolicy(doc, w, getMemberAccountId(w))

InitStaged(stagings) ==
  \E stage \in stagings :
    /\ records = [w \in Workspaces |-> StagedRecord(w, stage[w])]
    /\ storage = [w \in Workspaces |->
                    IF stage[w] \in {"absent", "terminated"} THEN {} ELSE {FolderKey}]
    /\ manifests = {<<w, 1>> : w \in {x \in Workspaces : stage[x] \in SubmittedStages}}
    /\ published =
         SelectSeq(<<Message("w1", FirstSubmitted("w1")), Message("w2", FirstSubmitted("w2"))>>,
                   LAMBDA m : stage[m.store] \in SubmittedStages)
    /\ policy = StagedGrant(StagedGrant(<<ForeignStatement>>, "w1", stage["w1"]),
                            "w2", stage["w2"])
    /\ wseq = [w \in Workspaces |-> StagedWrites(stage[w])]
    /\ lock = [l \in LockIds |-> NoProc]
    /\ pc = [p \in Procs |-> "idle"]
    /\ op = [p \in Procs |-> "none"]
    /\ ws = [p \in Procs |-> "w1"]
    /\ req = [p \in Procs |-> "none"]
    /\ info = [p \in Procs |-> NoRecord]
    /\ s3Policy = [p \in Procs |-> <<>>]
    /\ result = [p \in Procs |-> "none"]
    /\ rseq = [p \in Procs |-> 0]
    /\ started = 0
    /\ calls = <<>>

\* ------------------------------------------ submits on existing stores
\* Submit, enableSubmission and the Data Manager on stores in which a submit
\* is accepted.
InitSubmit == InitStaged([Workspaces -> SubmitStages])

\* the number of calls made on the staged stores
MaxSubmitCalls == 2

NextSubmit ==
  \/ \E p \in Procs, w \in Workspaces, u \in Users :
       started < MaxSubmitCalls /\ SubmitStart(p, w, u)
  \/ \E p \in Procs : SubmitSnapshot(p)
  \/ \E p \in Procs : SubmitSnapshotFail(p)
  \/ \E p \in Procs : LockAndUpdateLock(p)
  \/ \E p \in Procs : LockAndUpdateWrite(p)
  \/ \E p \in Procs : LockFail(p)
  \/ \E p \in Procs : SubmitPublish(p)
  \/ \E p \in Procs : SubmitPublishFail(p)
  \/ \E p \in Procs, w \in Workspaces :
       started < MaxSubmitCalls /\ EnableStart(p, w)
  \/ \E w \in Workspaces : DataManager(w)

SpecSubmit == InitSubmit /\ [][NextSubmit]_vars

\* ------------------------------------ every operation on existing stores
\* what getEgressStore does with the record it scanned (a null record makes
\* the property access throw)
GetDecision(rec, u) ==
  IF rec = NoRecord THEN "TypeError"
  ELSE IF ~Authorized(rec, u) THEN "Forbidden"
  ELSE "ok"

\* getEgressStore (listObjects): reads only; listAllObjects may throw
GetEgressStore(p, w, u) ==
  /\ CanStart(p)
  /\ Begin(p, "list", w, u)
  /\ \E r \in (IF GetDecision(records[w], u) = "ok"
                 THEN {"ok", "StorageIOFailed"}
                 ELSE {GetDecision(records[w], u)}) : Finish(p, r)
  /\ UNCHANGED <<records, storage, manifests, published, policy, lock, wseq, calls>>

\* enableEgressStoreSubmission called with a record whose id is not in the table
EnableStartAbsent(p, w) ==
  /\ CanStart(p)
  /\ records[w] = NoRecord
  /\ Begin(p, "enable", w, "none")
  /\ Goto(p, "u_lock", [NewRecord(w, "owner") EXCEPT !.flag = TRUE])
  /\ rseq' = [rseq EXCEPT ![p] = wseq[w]]
  /\ UNCHANGED <<records, storage, manifests, published, policy, lock, req, s3Policy,
                 wseq, calls>>

\* the number of calls made on the staged stores
MaxAllCalls == 2

\* the first store at any stage, the second one absent or enabled
InitAll ==
  InitStaged({st \in [Workspaces -> AllStages] : st["w2"] \in {"absent", "enabled"}})

NextAll ==
  \/ \E p \in Procs, w \in Workspaces, u \in Users :
       started < MaxAllCalls /\ CreateStart(p, w, u)
  \/ \E p \in Procs : CreateLock(p)
  \/ \E p \in Procs : CreateUpdate(p)
  \/ \E p \in Procs : PolicyLock(p)
  \/ \E p \in Procs : PolicyGet(p)
  \/ \E p \in Procs : PolicyPut(p)
  \/ \E p \in Procs : PolicyFail(p)
  \/ \E p \in Procs : LockFail(p)
  \/ \E p \in Procs : LockAndUpdateLock(p)
  \/ \E p \in Procs : LockAndUpdateWrite(p)
  \/ \E p \in Procs, w \in Workspaces, u \in Users :
       started < MaxAllCalls /\ TerminateStart(p, w, u)
  \/ \E p \in Procs : TerminateClear(p)
  \/ \E p \in Procs : TerminateClearFail(p)
  \/ \E p \in Procs, w \in Workspaces, u \in Users :
       started < MaxAllCalls /\ SubmitStart(p, w, u)
  \/ \E p \in Procs : SubmitSnapshot(p)
  \/ \E p \in Procs : SubmitSnapshotFail(p)
  \/ \E p \in Procs : SubmitPublish(p)
  \/ \E p \in Procs : SubmitPublishFail(p)
  \/ \E p \in Procs, w \in Workspaces :
       started < MaxAllCalls /\ EnableStart(p, w)
  \/ \E p \in Procs, w \in Workspaces :
       started < MaxAllCalls /\ EnableStartAbsent(p, w)
  \/ \E p \in Procs, w \in Workspaces, u \in Users :
       started < MaxAllCalls /\ GetEgressStore(p, w, u)
  \/ \E w \in Workspaces : DataManager(w)

SpecAll == InitAll /\ [][NextAll]_vars

\* ===================================================================
\* Claims
\* ===================================================================

\* the step in which caller p's lockAndUpdate writes store w's record
UpdateWrites(p, w) ==
  pc[p] = "u_update" /\ pc'[p] # "u_update" /\ ws[p] = w /\ wseq'[w] # wseq[w]

\* C1: the read-modify-write cycles of two calls on one workspace do not
\* interleave: whenever a call writes the record, the record has not been
\* written by another call since this call read it (the write is computed
\* from a read that is not older than any other call's write).
C1_WriteFromLatestRead ==
  [][\A p \in Procs, w \in Workspaces :
       UpdateWrites(p, w) => rseq[p] = wseq[w]]_vars

\* C2: whatever the interleaving of the grants of two creates for two
\* different stores, once both creates have completed the policy document
\* holds both grants: each store's account is a principal of that store's
\* get, put and list statements.
C2_BothGrantsKept ==
  \A p, q \in Procs :
    (/\ p # q
     /\ pc[p] = "done" /\ op[p] = "create" /\ result[p] = "ok"
     /\ pc[q] = "done" /\ op[q] = "create" /\ result[q] = "ok"
     /\ ws[p] # ws[q])
    => HasGrant(policy, ws[p]) /\ HasGrant(policy, ws[q])

\* two creates for different stores have both completed
C2_Witness ==
  /\ pc["p1"] = "done" /\ op["p1"] = "create" /\ result["p1"] = "ok"
  /\ pc["p2"] = "done" /\ op["p2"] = "create" /\ result["p2"] = "ok"
  /\ ws["p1"] # ws["p2"]
  /\ Len(policy) = 7

\* C3: a create that finds a record for its workspace fails with
\* AlreadyExists, ends there (it never reaches the policy grant) and leaves
\* the record, whatever its status, flag and ver, and the policy document as
\* they were.
C3_CreateOnExisting ==
  [][\A p \in Procs :
       (pc[p] = "c_update" /\ pc'[p] # "c_update" /\ records[ws[p]] # NoRecord)
       => /\ result'[p] = "AlreadyExists"
          /\ pc'[p] = "done"
          /\ records' = records
          /\ policy' = policy]_vars

\* a create was refused for a store that had been submitted in the meantime
C3_Witness ==
  \E p \in Procs :
    /\ op[p] = "create" /\ result[p] = "AlreadyExists"
    /\ records[ws[p]].status = PENDING_STATUS_CODE
    /\ records[ws[p]].ver = 1
    /\ HasGrant(policy, ws[p])

\* C4: terminate of a store in status PROCESSING fails and ends at once, for
\* an admin or the owner with Conflict (for anybody else with Forbidden), and
\* leaves the storage contents, the policy document and the record untouched.
C4_TerminateWhileProcessing ==
  [][\A p \in Procs, w \in Workspaces, u \in Users :
       (TerminateStart(p, w, u) /\ records[w].status = PROCESSING_STATUS_CODE)
       => /\ Authorized(records[w], u) => result'[p] = "Conflict"
          /\ result'[p] \in {"Conflict", "Forbidden"}
          /\ pc'[p] = "done"
          /\ storage' = storage /\ policy' = policy /\ records' = records]_vars

\* a terminate was refused with Conflict for a store that is in processing,
\* holds data and has its grant
C4_Witness ==
  \E p \in Procs :
    /\ op[p] = "terminate" /\ result[p] = "Conflict" /\ pc[p] = "done"
    /\ records[ws[p]].status = PROCESSING_STATUS_CODE
    /\ storage[ws[p]] # {}
    /\ HasGrant(policy, ws[p])

\* C5: submit for a store whose isAbleToSubmitEgressRequest is false fails
\* with InvalidState whoever asks, ends at once, publishes nothing, writes no
\* manifest and leaves the record as it is.
C5_SubmitNotReady ==
  [][\A p \in Procs, w \in Workspaces, u \in Users :
       (SubmitStart(p, w, u) /\ records[w] # NoRecord /\ ~records[w].flag)
       => /\ result'[p] = "InvalidState"
          /\ pc'[p] = "done"
          /\ published' = published /\ manifests' = manifests
          /\ records' = records]_vars

\* a second submit was refused after a first one went through
C5_Witness ==
  \E p \in Procs :
    /\ op[p] = "submit" /\ result[p] = "InvalidState" /\ pc[p] = "done"
    /\ records[ws[p]].status = PENDING_STATUS_CODE
    /\ ~records[ws[p]].flag
    /\ Len(published) = 1

\* C6: TERMINATED is terminal and the record persists: a record whose status
\* is TERMINATED keeps that status in every step.
C6_TerminatedIsTerminal ==
  [][\A w \in Workspaces :
       records[w].status = TERMINATED_STATUS_CODE
       => records'[w].status = TERMINATED_STATUS_CODE]_vars

\* C7: ver never decreases, and every write of terminate, submit and
\* enableSubmission to an existing record stores a ver strictly greater than
\* the one stored before.
C7_VerIncreasesOnEveryWrite ==
  [][\A w \in Workspaces :
       /\ records'[w].ver >= records[w].ver
       /\ (\E p \in Procs : UpdateWrites(p, w))
            => records'[w].ver > records[w].ver]_vars

\* C8: a record whose status is TERMINATED has isAbleToSubmitEgressRequest
\* false, so that no submit is accepted for a terminated store.
C8_TerminatedNotSubmittable ==
  \A w \in Workspaces :
    records[w].status = TERMINATED_STATUS_CODE => records[w].flag = FALSE

\* C9: grant is idempotent: a grant for a store and an account applied right
\* after the same grant leaves the document as the first one left it.
C9_GrantIdempotent ==
  \A i \in 1..(Len(calls) - 1) :
    (/\ calls[i].op = "grant" /\ calls[i + 1].op = "grant"
     /\ calls[i + 1].store = calls[i].store
     /\ calls[i + 1].account = calls[i].account)
    => After(i + 1) = After(i)

\* a grant that changed the document was followed by the same grant
C9_Witness ==
  /\ Len(calls) = 2
  /\ calls[1].op = "grant" /\ calls[2].op = "grant"
  /\ calls[2].store = calls[1].store /\ calls[2].account = calls[1].account
  /\ calls[1].before # calls[2].before
  /\ Len(calls[1].before) > 0

\* call i is a grant and call i+1 the revoke for the same store and account
GrantThenRevoke(i) ==
  /\ calls[i].op = "grant" /\ calls[i + 1].op = "revoke"
  /\ calls[i + 1].store = calls[i].store
  /\ calls[i + 1].account = calls[i].account

\* the account is a principal of none of the store's statements
NotYetPrincipal(doc, s, a) == \A k \in Kinds : a \notin Principals(doc, s, k)

\* the store has no statement in the document
NoStatementOf(doc, s) == \A i \in 1..Len(doc) : doc[i].store # s

\* C10 as stated: for every document, store and account, grant then revoke
\* restores the statements the document held before the grant, and every
\* unrelated statement is as it was.
C10_RoundTripAlways ==
  \A i \in 1..(Len(calls) - 1) :
    GrantThenRevoke(i)
    => /\ StatementSet(After(i + 1)) = StatementSet(calls[i].before)
       /\ Unrelated(After(i + 1), calls[i].store)
            = Unrelated(calls[i].before, calls[i].store)

\* C10 amended: when the account is not yet a principal of any of the store's
\* statements, grant then revoke leaves the document with the statements and
\* principal sets it had before the grant (the statements the grant created
\* are removed again; the whole document is identical when the store had no
\* statement), and every unrelated statement is as it was, in the same order.
C10_RoundTripFreshAccount ==
  \A i \in 1..(Len(calls) - 1) :
    (GrantThenRevoke(i)
       /\ NotYetPrincipal(calls[i].before, calls[i].store, calls[i].account))
    => /\ StatementSet(After(i + 1)) = StatementSet(calls[i].before)
       /\ Unrelated(After(i + 1), calls[i].store)
            = Unrelated(calls[i].before, calls[i].store)
       /\ NoStatementOf(calls[i].before, calls[i].store)
            => After(i + 1) = calls[i].before

\* a fresh account was granted and revoked on a document that holds a statement
\* of the store for another account and an unrelated statement
C10_Witness ==
  /\ Len(calls) = 2
  /\ GrantThenRevoke(1)
  /\ NotYetPrincipal(calls[1].before, calls[1].store, calls[1].account)
  /\ ~NoStatementOf(calls[1].before, calls[1].store)
  /\ Unrelated(calls[1].before, calls[1].store) # <<>>
  /\ Len(calls[2].before) = 4


\* the statements of store s in a document, in order
StoreStatements(doc, s) == SelectSeq(doc, LAMBDA st : st.store = s)

\* C11: the statements of a store (and of what is no egress store) change
\* only in the step in which a grant or revoke made for that very store puts
\* the policy document, whatever the interleaving of creates and terminates.
C11_OtherStoresUntouched ==
  [][\A s \in Workspaces \cup {"other"} :
       StoreStatements(policy', s) # StoreStatements(policy, s)
       => \E p \in Procs : pc[p] = "p_put" /\ ws[p] = s /\ pc'[p] = "done"]_vars

\* a terminate has revoked one store's grant while another store's grant and
\* the foreign statement are in the document
C11_Witness ==
  \E p \in Procs :
    /\ op[p] = "terminate" /\ result[p] = "ok" /\ pc[p] = "done"
    /\ records[ws[p]].status = TERMINATED_STATUS_CODE
    /\ NoStatementOf(policy, ws[p])
    /\ \E w \in Workspaces \ {ws[p]} : HasGrant(policy, w)
    /\ StoreStatements(policy, "other") = <<ForeignStatement>>


\* caller p's call ends in this step with a failure
FailsNow(p) == pc[p] # "done" /\ pc'[p] = "done" /\ result'[p] # "ok"

\* C12: a failure after the record was written is reported and not rolled
\* back. A create whose grant fails (lock not obtained, policy get or put
\* failed) leaves the table as it is, with the record it created in it (the
\* very record it wrote when nobody wrote since). A submit whose publish fails
\* throws PublishFailed and leaves the table as it is; when nobody wrote since,
\* the record is the one the submit wrote but for the status the Data Manager
\* may have advanced: ver incremented, manifest location set, flag false.
C12_NoRollback ==
  [][\A p \in Procs :
       /\ (op[p] = "create" /\ pc[p] \in {"p_lock", "p_get", "p_put"} /\ FailsNow(p))
          => /\ result'[p] \in {"PolicyUpdateFailed", "LockFailed"}
             /\ records' = records
             /\ records[ws[p]] # NoRecord
             /\ wseq[ws[p]] = 1 => records[ws[p]] = info[p]
       /\ (pc[p] = "s_publish" /\ FailsNow(p))
          => /\ result'[p] = "PublishFailed"
             /\ records' = records
             /\ wseq[ws[p]] = rseq[p] + 1
                => /\ records[ws[p]] = [info[p] EXCEPT !.status = records[ws[p]].status]
                   /\ info[p].status = PENDING_STATUS_CODE
                   /\ records[ws[p]].status \in {PENDING_STATUS_CODE,
                                                 PROCESSING_STATUS_CODE,
                                                 PROCESSED_STATUS_CODE}
                   /\ records[ws[p]].flag = FALSE
                   /\ records[ws[p]].ver >= 1
                   /\ records[ws[p]].loc = records[ws[p]].ver]_vars

\* a create has failed in its grant and its CREATED record is in the table
\* without the grant; a submit has failed in its publish and its record is
\* PENDING with ver 1, the manifest written and nothing published
C12_Witness ==
  \E p, q \in Procs :
    /\ op[p] = "create" /\ result[p] = "PolicyUpdateFailed"
    /\ records[ws[p]].status = CREATED_STATUS_CODE
    /\ ~HasGrant(policy, ws[p])
    /\ op[q] = "submit" /\ result[q] = "PublishFailed"
    /\ records[ws[q]].status = PENDING_STATUS_CODE
    /\ records[ws[q]].ver = 1 /\ records[ws[q]].loc = 1
    /\ records[ws[q]].flag = FALSE
    /\ <<ws[q], 1>> \in manifests
    /\ published = <<>>


\* the statuses terminate passes through: CREATED with the flag set, PENDING,
\* TERMINATED
PassThrough(rec) ==
  \/ rec.status = CREATED_STATUS_CODE /\ rec.flag = TRUE
  \/ rec.status = PENDING_STATUS_CODE
  \/ rec.status = TERMINATED_STATUS_CODE

\* C13: terminate, called by an admin or the owner, on a store that is CREATED
\* with isAbleToSubmitEgressRequest true, PENDING or TERMINATED returns the
\* record without error, ends at once and leaves the record, the storage
\* contents, the policy document (and the manifests, the events and the locks)
\* unchanged.
C13_PassThroughUnchanged ==
  [][\A p \in Procs, w \in Workspaces, u \in Users :
       (/\ TerminateStart(p, w, u)
        /\ Authorized(records[w], u)
        /\ PassThrough(records[w]))
       => /\ result'[p] = "ok"
          /\ pc'[p] = "done"
          /\ records' = records /\ storage' = storage /\ policy' = policy
          /\ manifests' = manifests /\ published' = published
          /\ lock' = lock]_vars

\* a terminate has returned the record of a store that is CREATED with the
\* flag set, still holds its data and still has its grant
C13_Witness ==
  \E p \in Procs :
    /\ op[p] = "terminate" /\ result[p] = "ok" /\ pc[p] = "done"
    /\ records[ws[p]].status = CREATED_STATUS_CODE
    /\ records[ws[p]].flag = TRUE
    /\ storage[ws[p]] # {}
    /\ HasGrant(policy, ws[p])


\* the steps of a terminate that goes on, in the order of the code
TerminateOrder ==
  {<<"t_clear", "u_lock">>, <<"u_lock", "u_update">>, <<"u_update", "p_lock">>,
   <<"p_lock", "p_get">>, <<"p_get", "p_put">>}

\* C14: an accepted terminate (admin or owner; status PROCESSED, or CREATED
\* with the flag false) clears the storage contents first, then writes the
\* record with status TERMINATED and the flag false, then revokes the grant.
\* The call goes from step to step in that order only; the clear empties the
\* store's storage before the record and the policy are touched; the write
\* stores TERMINATED with the flag false before the policy is touched; the
\* put of the revoke leaves the account a principal of none of the store's
\* get/put/list statements, and when nobody else wrote the record since the
\* call read it, the record then is TERMINATED with the flag false.
C14_TerminateOrder ==
  [][\A p \in Procs :
       /\ \A w \in Workspaces, u \in Users :
            (/\ TerminateStart(p, w, u)
             /\ Authorized(records[w], u)
             /\ \/ records[w].status = PROCESSED_STATUS_CODE
                \/ records[w].status = CREATED_STATUS_CODE /\ ~records[w].flag)
            => /\ pc'[p] = "t_clear"
               /\ storage' = storage /\ records' = records /\ policy' = policy
       /\ (op[p] = "terminate" /\ pc[p] \notin {"idle", "done"} /\ pc'[p] # pc[p])
          => /\ pc'[p] = "done" \/ <<pc[p], pc'[p]>> \in TerminateOrder
             /\ pc[p] = "t_clear" /\ pc'[p] = "u_lock"
                => /\ storage'[ws[p]] = {}
                   /\ records' = records /\ policy' = policy
             /\ pc[p] = "u_update" /\ pc'[p] = "p_lock"
                => /\ records'[ws[p]].status = TERMINATED_STATUS_CODE
                   /\ records'[ws[p]].flag = FALSE
                   /\ storage' = storage /\ policy' = policy
             /\ pc[p] = "p_put" /\ result'[p] = "ok"
                => /\ NotYetPrincipal(policy', ws[p], getMemberAccountId(ws[p]))
                   /\ records' = records /\ storage' = storage
                   /\ wseq[ws[p]] = rseq[p] + 1
                      => /\ records'[ws[p]].status = TERMINATED_STATUS_CODE
                         /\ records'[ws[p]].flag = FALSE]_vars

\* a terminate of a processed store has completed: the storage is empty, the
\* record is TERMINATED with the flag false and the store has no statement left
C14_Witness ==
  \E p \in Procs :
    /\ op[p] = "terminate" /\ result[p] = "ok" /\ pc[p] = "done"
    /\ records[ws[p]].status = TERMINATED_STATUS_CODE
    /\ records[ws[p]].flag = FALSE
    /\ records[ws[p]].ver = 1
    /\ Len(published) = 1
    /\ storage[ws[p]] = {}
    /\ NoStatementOf(policy, ws[p])


\* the steps of a submit that goes on, in the order of the code
SubmitOrder ==
  {<<"s_snap", "u_lock">>, <<"u_lock", "u_update">>, <<"u_update", "s_publish">>}

\* C15: a submit accepted on a record read with ver = v first writes the
\* manifest under the key of version v + 1 (record and events untouched), then
\* persists the record with status PENDING (whatever the status was, PENDING
\* included), ver = v + 1, the location of that same manifest and the flag
\* false (no event yet), and only then publishes exactly one event, whose
\* status, ver and manifest location are those of the record it persisted.
C15_SubmitOrder ==
  [][\A p \in Procs :
       /\ \A w \in Workspaces, u \in Users :
            (SubmitStart(p, w, u) /\ pc'[p] # "done")
            => /\ pc'[p] = "s_snap" /\ info'[p] = records[w]
               /\ manifests' = manifests /\ records' = records
               /\ published' = published
       /\ (op[p] = "submit" /\ pc[p] \notin {"idle", "done"} /\ pc'[p] # pc[p])
          => /\ pc'[p] = "done" \/ <<pc[p], pc'[p]>> \in SubmitOrder
             /\ pc[p] = "s_snap" /\ pc'[p] = "u_lock"
                => /\ manifests' = manifests \cup {<<ws[p], info[p].ver + 1>>}
                   /\ info'[p].ver = info[p].ver + 1
                   /\ info'[p].loc = info[p].ver + 1
                   /\ info'[p].status = PENDING_STATUS_CODE
                   /\ info'[p].flag = FALSE
                   /\ records' = records /\ published' = published
             /\ pc[p] = "u_update" /\ pc'[p] = "s_publish"
                => /\ records'[ws[p]] = info[p]
                   /\ records'[ws[p]].status = PENDING_STATUS_CODE
                   /\ records'[ws[p]].flag = FALSE
                   /\ records'[ws[p]].loc = records'[ws[p]].ver
                   /\ <<ws[p], records'[ws[p]].loc>> \in manifests
                   /\ published' = published /\ manifests' = manifests
             /\ pc[p] = "s_publish" /\ result'[p] = "ok"
                => /\ published' = Append(published,
                                          [store |-> ws[p],
                                           status |-> PENDING_STATUS_CODE,
                                           ver |-> info[p].ver,
                                           loc |-> info[p].loc])
                   /\ records' = records /\ manifests' = manifests
                   /\ wseq[ws[p]] = rseq[p] + 1
                      => /\ records[ws[p]].ver = info[p].ver
                         /\ records[ws[p]].loc = info[p].loc]_vars

\* a submit on a store that was PENDING with ver 1 has completed: manifest 2
\* is written, the record is PENDING with ver 2, location 2 and the flag
\* false, and the last event carries PENDING, ver 2 and location 2
C15_Witness ==
  \E p \in Procs :
    /\ op[p] = "submit" /\ result[p] = "ok" /\ pc[p] = "done"
    /\ <<ws[p], 1>> \in manifests /\ <<ws[p], 2>> \in manifests
    /\ records[ws[p]] = [FirstSubmitted(ws[p]) EXCEPT !.ver = 2, !.loc = 2]
    /\ Len(published) >= 2
    /\ published[Len(published)] = Message(ws[p], records[ws[p]])
    /\ \E i \in 1..(Len(published) - 1) :
         published[i] = Message(ws[p], FirstSubmitted(ws[p]))


\* caller p's call has ended in this step and nothing but the caller's own
\* bookkeeping has changed
EndsWithoutEffect(p) ==
  /\ pc'[p] = "done"
  /\ records' = records /\ storage' = storage /\ policy' = policy
  /\ manifests' = manifests /\ published' = published
  /\ lock' = lock /\ wseq' = wseq

\* C16: terminate, submit and listObjects called for an existing store by a
\* requester who is neither an admin nor the record's createdBy are rejected
\* (terminate and listObjects with Forbidden; submit with Forbidden, or with
\* InvalidState when the flag is false, which is checked first), and the call
\* changes neither the record, the storage contents, the policy document nor
\* the manifests, publishes nothing and takes no lock, whatever the status and
\* the flag of the store are.
C16_UnauthorizedRejected ==
  [][\A p \in Procs, w \in Workspaces, u \in Users :
       (records[w] # NoRecord /\ ~isAdmin(u) /\ records[w].createdBy # u)
       => /\ TerminateStart(p, w, u)
             => result'[p] = "Forbidden" /\ EndsWithoutEffect(p)
          /\ SubmitStart(p, w, u)
             => /\ result'[p] = (IF records[w].flag THEN "Forbidden" ELSE "InvalidState")
                /\ EndsWithoutEffect(p)
          /\ GetEgressStore(p, w, u)
             => result'[p] = "Forbidden" /\ EndsWithoutEffect(p)]_vars

\* a terminate and a submit of a requester who is neither admin nor owner
\* were refused for a store that accepts submits, holds data and has its grant
C16_Witness ==
  \E p, q \in Procs :
    /\ op[p] = "terminate" /\ result[p] = "Forbidden" /\ pc[p] = "done"
    /\ op[q] = "submit" /\ result[q] = "Forbidden" /\ pc[q] = "done"
    /\ ws[p] = ws[q]
    /\ records[ws[p]] = StagedRecord(ws[p], "resubmit")
    /\ storage[ws[p]] # {}
    /\ HasGrant(policy, ws[p])
    /\ Len(published) = 1


\* C17: the table holds one item per workspace id, and only create brings a
\* record into existence: a record that is absent becomes present only in the
\* conditional put of a create for that workspace, a create writes only where
\* no record is, and a record that is present stays present; terminate on a
\* workspace without record returns null and changes nothing; a submit on a
\* workspace without record fails, and an update (lockAndUpdate) that finds no
\* record with its id fails with the update error, and none of them creates a
\* record.
C17_OnlyCreateCreates ==
  [][/\ \A w \in Workspaces :
          /\ (records[w] = NoRecord /\ records'[w] # NoRecord)
             => \E p \in Procs :
                  /\ op[p] = "create" /\ ws[p] = w
                  /\ pc[p] = "c_update" /\ pc'[p] # "c_update"
                  /\ records'[w] = info[p]
          /\ records[w] # NoRecord => records'[w] # NoRecord
     /\ \A p \in Procs :
          /\ (pc[p] = "c_update" /\ pc'[p] # "c_update" /\ records' # records)
             => records[ws[p]] = NoRecord
          /\ (pc[p] = "u_update" /\ pc'[p] # "u_update" /\ records[ws[p]] = NoRecord)
             => /\ result'[p] = "UpdateFailed" /\ pc'[p] = "done"
                /\ records' = records
          /\ \A w \in Workspaces, u \in Users :
               records[w] = NoRecord
               => /\ TerminateStart(p, w, u)
                     => result'[p] = "null" /\ EndsWithoutEffect(p)
                  /\ SubmitStart(p, w, u)
                     => result'[p] = "TypeError" /\ EndsWithoutEffect(p)]_vars

\* an enableSubmission for a workspace without record has failed in its
\* update, a terminate for the same workspace has returned null, and the
\* workspace still has no record
C17_Witness ==
  \E p, q \in Procs :
    /\ op[p] = "enable" /\ result[p] = "UpdateFailed" /\ pc[p] = "done"
    /\ op[q] = "terminate" /\ result[q] = "null" /\ pc[q] = "done"
    /\ ws[p] = ws[q]
    /\ records[ws[p]] = NoRecord
    /\ wseq[ws[p]] = 0


\* the locks caller p holds
HeldBy(p) == {l \in LockIds : lock[l] = p}

\* C18: no call holds the record lock and the policy lock at the same time,
\* and no call holds a lock while it asks for one: a caller holds at most one
\* lock, holds none at the steps where it asks for a lock (the record lock of
\* create and of lockAndUpdate, the policy lock of grant and revoke) and none
\* outside a call, so that no caller waits for a lock while holding another.
C18_NeverBothLocks ==
  \A p \in Procs :
    /\ Cardinality(HeldBy(p)) <= 1
    /\ pc[p] \in {"c_lock", "u_lock", "p_lock", "idle", "done"} => HeldBy(p) = {}
    /\ pc[p] \in {"c_update", "u_update"} => HeldBy(p) = {egressStoreDdbLockId(ws[p])}
    /\ pc[p] \in {"p_get", "p_put"} => HeldBy(p) = {bucketPolicyLockId(ws[p])}

\* a terminate has written its record, released the record lock and holds the
\* policy lock while another call holds the record lock of the same store
C18_Witness ==
  \E p, q \in Procs :
    /\ op[p] = "terminate" /\ pc[p] = "p_put"
    /\ lock[bucketPolicyLockId(ws[p])] = p
    /\ records[ws[p]].status = TERMINATED_STATUS_CODE
    /\ ws[q] = ws[p] /\ pc[q] \in {"c_update", "u_update"}
    /\ lock[egressStoreDdbLockId(ws[p])] = q


\* C19: a call that fails to obtain a lock ends there, and no state is
\* mutated before the lock is obtained: the steps a create, a terminate or a
\* submit makes up to its request of the record lock leave the storage
\* contents, the manifests, the records and the policy document as they are,
\* and the step in which the lock is refused ends the call with the lock
\* failure.
C19_NoMutationBeforeLock ==
  [][\A p \in Procs :
       /\ (pc'[p] # pc[p] /\ pc'[p] \in {"t_clear", "s_snap", "c_lock", "u_lock"})
          => /\ storage' = storage /\ manifests' = manifests
             /\ records' = records /\ policy' = policy
       /\ (pc[p] \in {"c_lock", "u_lock", "p_lock"} /\ lock[WantedLock(p)] # NoProc
           /\ pc'[p] # pc[p])
          => /\ pc'[p] = "done" /\ result'[p] = "LockFailed"
             /\ storage' = storage /\ manifests' = manifests
             /\ records' = records /\ policy' = policy]_vars


\* the number of statements of store s and kind k in a document
StatementCount(doc, s, k) ==
  Cardinality({i \in 1..Len(doc) : doc[i].store = s /\ doc[i].kind = k})

\* C20: after any sequence of grant and revoke calls the policy document
\* holds at most one statement per (store, action-kind) and no statement with
\* an empty principal set. After a grant each of the store's get, put and list
\* statements exists exactly once, created only if it was absent, with the
\* account added to the principals it had; after a revoke the account is
\* removed from each of the three, and a statement whose last principal it was
\* is no longer in the document.
C20_OneStatementNoEmpty ==
  /\ DistinctSids(policy)
  /\ \A i \in 1..Len(policy) : policy[i].principals # {}
  /\ \A i \in 1..Len(calls), k \in Kinds :
       LET c == calls[i]
           d == After(i)
       IN /\ StatementCount(d, c.store, k) <= 1
          /\ c.op = "grant"
             => /\ StatementCount(d, c.store, k) = 1
                /\ Principals(d, c.store, k)
                     = Principals(c.before, c.store, k) \cup {c.account}
          /\ c.op = "revoke"
             => /\ Principals(d, c.store, k)
                     = Principals(c.before, c.store, k) \ {c.account}
                /\ Principals(c.before, c.store, k) \subseteq {c.account}
                   => StatementCount(d, c.store, k) = 0

\* a grant created the three statements of a store next to the statements of
\* others, and the revoke of their only principal removed all three
C20_Witness ==
  /\ Len(calls) = 2
  /\ GrantThenRevoke(1)
  /\ NoStatementOf(calls[1].before, calls[1].store)
  /\ Len(calls[1].before) = 2
  /\ Len(calls[2].before) = 5
  /\ \A k \in Kinds : Principals(calls[2].before, calls[1].store, k) = {calls[1].account}
  /\ policy = calls[1].before


\* what a call that met no failure ends with
Unfailed == {"none", "ok", "null"}

\* no call is in progress, every call made so far is the last one of its
\* caller, and none of them failed
QuietAndUnfailed ==
  /\ \A p \in Procs : pc[p] \in {"idle", "done"} /\ result[p] \in Unfailed
  /\ started = Cardinality({p \in Procs : op[p] # "none"})

\* C21: the policy stays consistent with the lifecycle state under
\* concurrency: in every state where no call is in progress and no step has
\* failed, the account of a store whose record is TERMINATED is a principal of
\* none of the store's get/put/list statements.
C21_TerminatedHasNoGrant ==
  QuietAndUnfailed
  => \A w \in Workspaces :
       records[w].status = TERMINATED_STATUS_CODE
       => NotYetPrincipal(policy, w, getMemberAccountId(w))


\* C22: each enabling of submission yields at most one published event: for
\* one store no two submits write the same manifest key or publish events
\* with the same ver, and the vers published for a store increase strictly.
\* A submit's snapshot writes a manifest key that was not written before, and
\* the event a submit publishes carries a ver greater than every ver
\* published for the store before.
C22_OneEventPerEnabling ==
  [][\A p \in Procs :
       /\ (pc[p] = "s_snap" /\ pc'[p] = "u_lock")
          => /\ <<ws[p], info'[p].ver>> \notin manifests
             /\ <<ws[p], info'[p].ver>> \in manifests'
       /\ (pc[p] = "s_publish" /\ pc'[p] = "done" /\ result'[p] = "ok")
          => /\ Len(published') = Len(published) + 1
             /\ \A i \in 1..Len(published) :
                  published[i].store = ws[p]
                  => published[i].ver < published'[Len(published')].ver]_vars

====
